---- MODULE Spec2Model ----
(***************************************************************************)
(* A model of src/data.py: XrDataset (patch views over a labelled array),  *)
(* XrConcatDataset (reconstruction over several views) and                 *)
(* AugmentedDataset (augmentation by permutation).                         *)
(*                                                                         *)
(* Numbers.  An array cell is a pair <<n, d>>: the rational n/d in lowest  *)
(* terms with d > 0, or one of IEEE's specials: <<0,0>> is not-a-number,   *)
(* <<1,0>> and <<-1,0>> are the infinities.  float64 is modelled as exact  *)
(* rationals, float32 as the integers among them, so that a float64 value  *)
(* with one more significand bit than float32 keeps is a half-integer.     *)
(*                                                                         *)
(* Arrays.  A numpy array is a record [shape, val]: shape is the sequence  *)
(* of axis lengths, val maps every 0-based index tuple to its cell.        *)
(*                                                                         *)
(* Errors.  A call that raises yields the record [error |-> <exception>].  *)
(*                                                                         *)
(* xarray.  Selection by label (.sel, .loc) is modelled as the lookup of   *)
(* each label's position in the coordinate; labels are unique.  The axes   *)
(* of the coordinate record get_coords returns are taken in the order      *)
(* list(patch_dims) names them.                                            *)
(***************************************************************************)
EXTENDS Integers, Sequences, FiniteSets, TLC

VARIABLES ds, datasets, aug, threads, out

vars == <<ds, datasets, aug, threads, out>>

\* ------------------------------------------------------------------ bounds

\* Largest extent of an axis of the source array.
MaxExtent == 3
\* Largest patch size and stride handed to the constructor.
MaxPatch == 2
MaxStride == 2
\* Largest aug_factor and largest base length of an AugmentedDataset.
MaxAug == 2
MaxBase == 2
\* Largest number of views in an XrConcatDataset and largest batch size.
MaxMembers == 2
MaxBatch == 2

\* ------------------------------------------------------------- arithmetic

Max(a, b) == IF a >= b THEN a ELSE b
Min(a, b) == IF a <= b THEN a ELSE b
Abs(a) == IF a < 0 THEN -a ELSE a

\* Python's a // b (floor division), b # 0.
PyFloorDiv(a, b) ==
  IF b > 0 THEN a \div b ELSE (-a) \div (-b)

\* Python's a % b (the sign of the result is the sign of b), b # 0.
PyMod(a, b) == a - b * PyFloorDiv(a, b)

RECURSIVE Gcd(_, _)
Gcd(a, b) == IF b = 0 THEN a ELSE Gcd(b, a % b)

NaN == <<0, 0>>

IsNaN(v) == v = NaN
IsFinite(v) == v[2] # 0

Sign(n) == IF n > 0 THEN 1 ELSE IF n < 0 THEN -1 ELSE 0

\* n/d as a cell: lowest terms, positive denominator; x/0 per IEEE 754.
Quot(n, d) ==
  IF d = 0 THEN <<Sign(n), 0>>
  ELSE LET g == Gcd(Abs(n), Abs(d))
           s == Sign(d)
       IN  <<(s * n) \div g, (s * d) \div g>>

Num(k) == <<k, 1>>

FAdd(a, b) ==
  IF IsFinite(a) /\ IsFinite(b) THEN Quot(a[1] * b[2] + b[1] * a[2], a[2] * b[2])
  ELSE IF IsNaN(a) \/ IsNaN(b) \/ a # b THEN NaN
  ELSE a

FMul(a, b) ==
  IF IsFinite(a) /\ IsFinite(b) THEN Quot(a[1] * b[1], a[2] * b[2])
  ELSE IF IsNaN(a) \/ IsNaN(b) \/ a[1] = 0 \/ b[1] = 0 THEN NaN
  ELSE <<Sign(a[1]) * Sign(b[1]), 0>>

FDiv(a, b) ==
  IF IsFinite(a) /\ IsFinite(b) THEN Quot(a[1] * b[2], a[2] * b[1])
  ELSE IF IsNaN(a) \/ IsNaN(b) \/ (~IsFinite(a) /\ ~IsFinite(b)) THEN NaN
  ELSE IF IsFinite(a) THEN Num(0)
  ELSE a

\* numpy's astype(np.float32): round to the nearest float32, ties to even.
\* A finite cell is an integer or a half-integer (see the header).
Float32(v) ==
  IF ~IsFinite(v) \/ v[2] = 1 THEN v
  ELSE LET fl == v[1] \div v[2]
       IN  Num(IF fl % 2 = 0 THEN fl ELSE fl + 1)

\* ------------------------------------------------------------------ arrays

RECURSIVE SeqMax(_)
SeqMax(s) == IF s = <<>> THEN 0 ELSE Max(Head(s), SeqMax(Tail(s)))

RECURSIVE SeqProd(_)
SeqProd(s) == IF s = <<>> THEN 1 ELSE Head(s) * SeqProd(Tail(s))

RECURSIVE SeqSum(_)
SeqSum(s) == IF s = <<>> THEN 0 ELSE Head(s) + SeqSum(Tail(s))

\* The index tuples of an array of this shape.
Box(shape) ==
  {s \in [1..Len(shape) -> 0..SeqMax(shape)] :
     \A k \in 1..Len(shape) : s[k] < shape[k]}

\* Position of index tuple idx in C (row-major) order.
RECURSIVE RavelIndex(_, _)
RavelIndex(idx, shape) ==
  IF idx = <<>> THEN 0
  ELSE idx[1] * SeqProd(Tail(shape)) + RavelIndex(Tail(idx), Tail(shape))

Raise(kind) == [error |-> kind]
IsError(r) == "error" \in DOMAIN r

\* np.unravel_index(item, shape): C order, the last axis varies fastest;
\* numpy raises ValueError for an index outside [0, prod(shape)).
RECURSIVE UnravelDigits(_, _)
UnravelDigits(item, shape) ==
  IF shape = <<>> THEN <<>>
  ELSE LET rest == SeqProd(Tail(shape))
       IN  <<item \div rest>> \o UnravelDigits(item % rest, Tail(shape))

\* A faulty variant: Fortran order, the first axis varying fastest.
unravel_index_fortran(item, shape) ==
  IF item < 0 \/ item >= SeqProd(shape) THEN Raise("ValueError")
  ELSE LET n == Len(shape)
           dg == UnravelDigits(item, [k \in 1..n |-> shape[n + 1 - k]])
       IN  [offsets |-> [k \in 1..n |-> dg[n + 1 - k]]]

\* A faulty variant: the index wrapped around, as Python's sequences do
\* with negative indices.
unravel_index_wrapping(item, shape) ==
  IF SeqProd(shape) = 0 THEN Raise("ValueError")
  ELSE [offsets |-> UnravelDigits(PyMod(item, SeqProd(shape)), shape)]

unravel_index(item, shape) ==
  IF item < 0 \/ item >= SeqProd(shape) THEN Raise("ValueError")
  ELSE [offsets |-> UnravelDigits(item, shape)]

\* The positions Python's slice(start, stop) selects on an axis of length n.
PySlice(start, stop, n) ==
  LET lo == IF start < 0 THEN Max(start + n, 0) ELSE Min(start, n)
      hi == IF stop < 0 THEN Max(stop + n, 0) ELSE Min(stop, n)
  IN  [k \in 1..Max(hi - lo, 0) |-> lo + k - 1]

\* --------------------------------------------------------- the source array

\* The names of the axes; the source array has one axis per name.
DimNames == {"lat", "lon"}

\* list(patch_dims): the windowed axes in the order the caller declares them.
PatchDimNames == <<"lat", "lon">>

NoObject == [none |-> TRUE]

\* The coordinate label of position pos on axis dim: unique per axis,
\* latitudes descending, longitudes ascending.
CoordLabel(dim, pos) == IF dim = "lat" THEN 60 - 10 * pos ELSE 10 * pos

\* Cells of the synthetic sources: integers, half-integers and NaN.
Palette == <<Num(1), Quot(3, 2), Num(2), NaN, Quot(5, 2), Num(4)>>

\* A labelled array: dims and shape as xarray gives them, one coordinate
\* sequence per axis, and the data, cell k (in C order) holding
\* Palette[(seed + k) mod Len(Palette)].
DataArray(dims, extent, seed) ==
  LET shape == [k \in 1..Len(dims) |-> extent[dims[k]]]
  IN  [dims |-> dims,
       shape |-> shape,
       coords |-> [d \in DimNames |-> [p \in 1..extent[d] |-> CoordLabel(d, p - 1)]],
       data |-> [idx \in Box(shape) |->
                   Palette[((seed + RavelIndex(idx, shape)) % Len(Palette)) + 1]]]

\* The position of axis `dim` among the axes of da.
AxisOf(da, dim) == CHOOSE k \in 1..Len(da.dims) : da.dims[k] = dim

\* '#'.join(a).endswith('#'.join(b)) for axis names none of which is a
\* suffix of another: b is a suffix of a.
EndsWith(a, b) ==
  /\ Len(b) <= Len(a)
  /\ \A k \in 1..Len(b) : a[Len(a) - Len(b) + k] = b[k]

\* ------------------------------------------------------ XrDataset.__init__

\* self.strides.get(dim, 1)
StrideGet(strides, dim) == IF dim \in DOMAIN strides THEN strides[dim] ELSE 1

PatchKeys == {PatchDimNames[k] : k \in 1..Len(PatchDimNames)}

XrDataset_init(da, patch_dims, strides, check_full_scan, check_dim_order) ==
  LET da_dims == [d \in DimNames |-> da.shape[AxisOf(da, d)]]
  IN  IF \E d \in PatchKeys : StrideGet(strides, d) = 0
        THEN Raise("ZeroDivisionError")
      ELSE IF check_full_scan /\ \E d \in PatchKeys :
                PyMod(da_dims[d] - patch_dims[d], StrideGet(strides, d)) # 0
        THEN Raise("IncompleteScanConfiguration")
      ELSE IF check_dim_order /\ ~EndsWith(da.dims, PatchDimNames)
        THEN Raise("DangerousDimOrdering")
      ELSE [return_coords |-> FALSE,
            da |-> da,
            patch_dims |-> patch_dims,
            strides |-> strides,
            ds_size |-> [d \in PatchKeys |->
                           Max(PyFloorDiv(da_dims[d] - patch_dims[d],
                                          StrideGet(strides, d)) + 1, 0)]]

\* tuple(self.ds_size.values()): the window counts in declaration order.
DsShape(self) == [k \in 1..Len(PatchDimNames) |-> self.ds_size[PatchDimNames[k]]]

\* XrDataset.__len__
XrDataset_len(self) == SeqProd(DsShape(self))

\* ---------------------------------------------------- XrDataset.__getitem__

\* The dict sl of __getitem__: per windowed axis the slice bounds, or the
\* error np.unravel_index raises.
Slices(self, item) ==
  LET un == unravel_index(item, DsShape(self))
      offs == un.offsets
  IN  IF IsError(un) THEN un
      ELSE [d \in PatchKeys |->
              LET k == CHOOSE j \in 1..Len(PatchDimNames) : PatchDimNames[j] = d
                  st == StrideGet(self.strides, d)
              IN  [start |-> st * offs[k], stop |-> st * offs[k] + self.patch_dims[d]]]

\* self.da.isel(**sl): per axis of da the selected positions.
Isel(self, sl) ==
  [k \in 1..Len(self.da.dims) |->
     LET d == self.da.dims[k]
     IN  IF d \in PatchKeys THEN PySlice(sl[d].start, sl[d].stop, self.da.shape[k])
         ELSE [p \in 1..self.da.shape[k] |-> p - 1]]

\* item.coords.to_dataset()[list(self.patch_dims)]: the labels of the
\* selected positions, per windowed axis.
CoordsRecord(self, sel) ==
  [kind |-> "coords",
   coords |-> [d \in PatchKeys |->
                 LET pos == sel[AxisOf(self.da, d)]
                 IN  [q \in 1..Len(pos) |-> self.da.coords[d][pos[q] + 1]]]]

\* item.data.astype(np.float32)
DataPatch(self, sel) ==
  LET shape == [k \in 1..Len(sel) |-> Len(sel[k])]
  IN  [kind |-> "data",
       shape |-> shape,
       val |-> [idx \in Box(shape) |->
                  Float32(self.da.data[[k \in 1..Len(sel) |-> sel[k][idx[k] + 1]]])]]

\* __getitem__ with the value of self.return_coords it reads at line 110,
\* for a view constructed without postpro_fn.
getitem_flag(self, item, return_coords) ==
  LET sl == Slices(self, item)
  IN  IF IsError(sl) THEN sl
      ELSE IF return_coords THEN CoordsRecord(self, Isel(self, sl))
      ELSE DataPatch(self, Isel(self, sl))

getitem(self, item) == getitem_flag(self, item, self.return_coords)

\* XrDataset.get_coords run alone: the flag is raised, every index is read,
\* and the finally clause lowers the flag and returns the list.
get_coords(self) ==
  [i \in 1..XrDataset_len(self) |-> getitem_flag(self, i - 1, TRUE)]

\* ------------------------------------------ XrDataset.reconstruct_from_items

None == [none |-> TRUE]

\* list(self.patch_dims.values()): the patch sizes in declaration order.
PatchShape(self) == [k \in 1..Len(PatchDimNames) |-> self.patch_dims[PatchDimNames[k]]]

\* np.ones(list(self.patch_dims.values()))
Ones(self) == [shape |-> PatchShape(self), val |-> [q \in Box(PatchShape(self)) |-> Num(1)]]

\* The position on axis d of the source that carries this label
\* (the label-based selection of .sel and .loc).
\* A faulty variant: the position a label would have were the coordinate
\* sorted in ascending order.
LabelPosAscending(self, d, label) ==
  Cardinality({p \in 1..Len(self.da.coords[d]) : self.da.coords[d][p] < label})

LabelPos(self, d, label) ==
  CHOOSE p \in 0..(Len(self.da.coords[d]) - 1) : self.da.coords[d][p + 1] = label

\* The cell of the full-size array that cell q of a patch labelled co is
\* written to.
TargetCell(self, co, q) ==
  [k \in 1..Len(PatchDimNames) |->
     LabelPos(self, PatchDimNames[k], co.coords[PatchDimNames[k]][q[k] + 1])]

\* One turn of the loop of lines 154-156: rec_da.loc[da.coords] and
\* count_da.loc[da.coords] are read, added to and written back.
\* A faulty variant: the count accumulator counts windows, not weights.
AccumulateUnweightedCount(self, acc, it, co, w) ==
  LET hit(c) == {q \in Box(it.shape) : TargetCell(self, co, q) = c}
  IN  [rec |-> [c \in DOMAIN acc.rec |->
                  IF hit(c) = {} THEN acc.rec[c]
                  ELSE LET q == CHOOSE q \in hit(c) : TRUE
                       IN  FAdd(acc.rec[c], FMul(it.val[q], w.val[q]))],
       count |-> [c \in DOMAIN acc.count |->
                  IF hit(c) = {} THEN acc.count[c]
                  ELSE FAdd(acc.count[c], Num(1))]]

Accumulate(self, acc, it, co, w) ==
  LET hit(c) == {q \in Box(it.shape) : TargetCell(self, co, q) = c}
  IN  [rec |-> [c \in DOMAIN acc.rec |->
                  IF hit(c) = {} THEN acc.rec[c]
                  ELSE LET q == CHOOSE q \in hit(c) : TRUE
                       IN  FAdd(acc.rec[c], FMul(it.val[q], w.val[q]))],
       count |-> [c \in DOMAIN acc.count |->
                  IF hit(c) = {} THEN acc.count[c]
                  ELSE LET q == CHOOSE q \in hit(c) : TRUE
                       IN  FAdd(acc.count[c], w.val[q])]]

\* The loop over das = zip(items, coords): zip stops at the shorter list.
RECURSIVE AccumulateAll(_, _, _, _, _, _)
AccumulateAll(self, acc, items, coords, w, k) ==
  IF k > Min(Len(items), Len(coords)) THEN acc
  ELSE AccumulateAll(self, Accumulate(self, acc, items[k], coords[k], w),
                     items, coords, w, k + 1)

\* reconstruct_from_items(items, weight) for items with no leading extra
\* axes (new_dims is empty).  The axes of items, of weight and of the
\* result are named coords[0].dims, the windowed axes in declaration order;
\* xarray raises ValueError when an axis and its coordinate differ in length.
reconstruct_from_items(self, items, weight) ==
  LET w == IF weight = None THEN Ones(self) ELSE weight
      coords == get_coords(self)
      n == Len(PatchDimNames)
      da_shape == [k \in 1..n |-> self.da.shape[Len(self.da.shape) - n + k]]
      zeros == [c \in Box(da_shape) |-> Num(0)]
      acc == AccumulateAll(self, [rec |-> zeros, count |-> zeros], items, coords, w, 1)
  IN  IF items = <<>> \/ coords = <<>> THEN Raise("IndexError")
      ELSE IF \E i \in 1..Min(Len(items), Len(coords)), k \in 1..n :
                items[i].shape[k] # Len(coords[i].coords[PatchDimNames[k]])
        THEN Raise("ValueError")
      ELSE IF \E k \in 1..n : da_shape[k] # Len(self.da.coords[PatchDimNames[k]])
        THEN Raise("ValueError")
      ELSE [kind |-> "array",
            shape |-> da_shape,
            val |-> [c \in Box(da_shape) |-> FDiv(acc.rec[c], acc.count[c])]]

\* ------------------------------------------------- one view, called in turn

NoCall == [op |-> "none"]

\* The strides argument: a dict over any subset of the windowed axes.
StrideDicts ==
  UNION {[K -> (-1)..MaxStride] : K \in SUBSET PatchKeys}

DimOrders == {<<"lat", "lon">>, <<"lon", "lat">>}

InitView ==
  /\ ds = NoObject
  /\ datasets = <<>>
  /\ aug = NoObject
  /\ threads = <<>>
  /\ out = NoCall

\* XrDataset(da, patch_dims, strides=..., check_full_scan=..., check_dim_order=...)
Construct ==
  /\ ds = NoObject
  /\ out = NoCall
  /\ \E dims \in DimOrders, extent \in [DimNames -> 1..MaxExtent],
        patch_dims \in [PatchKeys -> (-1)..MaxPatch], strides \in StrideDicts,
        check_full_scan \in BOOLEAN, check_dim_order \in BOOLEAN :
       LET r == XrDataset_init(DataArray(dims, extent, 0), patch_dims, strides,
                               check_full_scan, check_dim_order)
       IN  /\ ds' = IF IsError(r) THEN NoObject ELSE r
           /\ out' = [op |-> "init", patch_dims |-> patch_dims, strides |-> strides,
                      check_full_scan |-> check_full_scan,
                      check_dim_order |-> check_dim_order,
                      result |-> IF IsError(r) THEN r ELSE [ok |-> TRUE]]
  /\ UNCHANGED <<datasets, aug, threads>>

\* ds[index]
GetItem ==
  /\ ds # NoObject
  /\ \E index \in (-2)..(XrDataset_len(ds) + 1) :
       out' = [op |-> "getitem", index |-> index, result |-> getitem(ds, index)]
  /\ UNCHANGED <<ds, datasets, aug, threads>>

\* ds.get_coords()
GetCoords ==
  /\ ds # NoObject
  /\ out' = [op |-> "get_coords", result |-> get_coords(ds)]
  /\ UNCHANGED <<ds, datasets, aug, threads>>

NextView == Construct \/ GetItem \/ GetCoords

Spec == InitView /\ [][NextView]_vars

\* ------------------------------------------- one view, reconstructed from

\* torch.from_numpy: the items handed to reconstruct_from_items are tensors
\* (line 141 calls it.numpy()); a tensor is modelled as the array it holds.
Tensor(patch) == [shape |-> patch.shape, val |-> patch.val]

ConstItem(self, c) ==
  [shape |-> PatchShape(self), val |-> [q \in Box(PatchShape(self)) |-> Num(c)]]

\* The items get(0), get(1), ..., get(len()-1), as tensors.
GetItems(self) ==
  [i \in 1..XrDataset_len(self) |-> Tensor(getitem(self, i - 1))]

ItemKinds == {"get", "const", "cell"}

\* The item lists reconstruction is called with: m items, which are the
\* view's own patches (followed by a constant patch once they run out), one
\* constant patch repeated, or patches that differ from cell to cell and
\* from window to window.
ItemSeq(self, kind, m) ==
  [i \in 1..m |->
     IF kind = "get" /\ i <= XrDataset_len(self) THEN GetItems(self)[i]
     ELSE IF kind = "cell"
       THEN [shape |-> PatchShape(self),
             val |-> [q \in Box(PatchShape(self)) |->
                        Num(i + 2 * RavelIndex(q, PatchShape(self)))]]
     ELSE ConstItem(self, 3)]

WeightKinds == {"none", "ramp", "alternating"}

\* The weight argument: absent, or an array shaped like one patch whose
\* first cell weighs nothing, or one whose weights change sign.
WeightOf(self, kind) ==
  IF kind = "none" THEN None
  ELSE [shape |-> PatchShape(self),
        val |-> [q \in Box(PatchShape(self)) |->
                   LET r == RavelIndex(q, PatchShape(self))
                   IN  IF kind = "ramp" THEN Num(r)
                       ELSE Num(IF r % 2 = 0 THEN 1 ELSE -1)]]

\* The numbers of items supplied: none, one too few, exactly len(), one too many.
ItemCounts(n) == {0, n, n + 1} \cup (IF n > 0 THEN {n - 1} ELSE {})

\* A view constructed with positive patch sizes and strides and no checks.
InitRec ==
  /\ \E dims \in DimOrders, extent \in [DimNames -> 1..MaxExtent],
        patch_dims \in [PatchKeys -> 1..MaxPatch],
        strides \in [PatchKeys -> 1..MaxStride] :
       ds = XrDataset_init(DataArray(dims, extent, 0), patch_dims, strides, FALSE, FALSE)
  /\ datasets = <<>>
  /\ aug = NoObject
  /\ threads = <<>>
  /\ out = NoCall

\* ds.reconstruct_from_items(items, weight).  The call leaves the view as
\* it found it, so one call per run reaches every result.
ReconstructFromItems ==
  /\ out = NoCall
  /\ \E kind \in ItemKinds, m \in ItemCounts(XrDataset_len(ds)), wk \in WeightKinds :
       LET items == ItemSeq(ds, kind, m)
           weight == WeightOf(ds, wk)
       IN  out' = [op |-> "reconstruct_from_items", items |-> items, weight |-> weight,
                   result |-> reconstruct_from_items(ds, items, weight)]
  /\ UNCHANGED <<ds, datasets, aug, threads>>

NextRec == ReconstructFromItems

SpecRec == InitRec /\ [][NextRec]_vars

\* ------------------------------------------- XrConcatDataset.reconstruct

\* itertools.chain(*batches)
RECURSIVE Chain(_)
Chain(batches) ==
  IF batches = <<>> THEN <<>> ELSE Head(batches) \o Chain(Tail(batches))

\* list(itertools.islice(items_iter, n)) on an iterator that has already
\* yielded its first pos items: the next n, or as many as are left.
\* A faulty variant: every member reads from the start of the stream.
IsliceFromStart(stream, pos, n) == SubSeq(stream, 1, Min(n, Len(stream)))

Islice(stream, pos, n) == SubSeq(stream, pos + 1, Min(pos + n, Len(stream)))

\* The loop of lines 170-172 from member j on; an exception raised by a
\* member's reconstruct_from_items ends the call.
RECURSIVE ReconstructMembers(_, _, _, _, _, _)
ReconstructMembers(dss, stream, weight, j, pos, rec_das) ==
  IF j > Len(dss) THEN [rec_das |-> rec_das]
  ELSE LET ds_items == Islice(stream, pos, XrDataset_len(dss[j]))
           r == reconstruct_from_items(dss[j], ds_items, weight)
       IN  IF IsError(r) THEN r
           ELSE ReconstructMembers(dss, stream, weight, j + 1, pos + Len(ds_items),
                                   Append(rec_das, r))

XrConcatDataset_reconstruct(dss, batches, weight) ==
  ReconstructMembers(dss, Chain(batches), weight, 1, 0, <<>>)

\* ------------------------------------------- several views, reconstructed

\* The item stream cut into batches of b items (the last one may be short).
RECURSIVE Batches(_, _)
Batches(stream, b) ==
  IF stream = <<>> THEN <<>>
  ELSE <<SubSeq(stream, 1, Min(b, Len(stream)))>>
         \o Batches(SubSeq(stream, Min(b, Len(stream)) + 1, Len(stream)), b)

\* A member view: one row of the given length, windowed along lon with the
\* patch size and stride all members share (the data module builds every
\* view with the same xrds_kw).
Member(lon, patch, stride) ==
  XrDataset_init(DataArray(PatchDimNames, [d \in DimNames |-> IF d = "lon" THEN lon ELSE 1], 0),
                 [d \in PatchKeys |-> IF d = "lon" THEN patch ELSE 1],
                 [d \in PatchKeys |-> IF d = "lon" THEN stride ELSE 1],
                 FALSE, FALSE)

TotalLen(dss) == SeqSum([j \in 1..Len(dss) |-> XrDataset_len(dss[j])])

InitConcat ==
  /\ ds = NoObject
  /\ \E n \in 1..MaxMembers, patch \in 1..MaxPatch, stride \in 1..MaxStride :
       \E lons \in [1..n -> 1..MaxExtent] :
         datasets = [j \in 1..n |-> Member(lons[j], patch, stride)]
  /\ aug = NoObject
  /\ threads = <<>>
  /\ out = NoCall

\* XrConcatDataset(datasets).reconstruct(batches, weight): item k of the
\* stream is a patch filled with the number k.
ConcatReconstruct ==
  /\ out = NoCall
  /\ \E m \in ItemCounts(TotalLen(datasets)), b \in 1..MaxBatch, wk \in {"none", "ramp"} :
       LET batches == Batches([k \in 1..m |-> ConstItem(datasets[1], k)], b)
           weight == WeightOf(datasets[1], wk)
       IN  out' = [op |-> "concat_reconstruct", batches |-> batches, weight |-> weight,
                   result |-> XrConcatDataset_reconstruct(datasets, batches, weight)]
  /\ UNCHANGED <<ds, datasets, aug, threads>>

NextConcat == ConcatReconstruct

SpecConcat == InitConcat /\ [][NextConcat]_vars

\* ------------------------------------------------------- AugmentedDataset

\* AugmentedDataset.__len__
AugmentedDataset_len(self) == Len(self.inp_ds) * (self.aug_factor + 1)

\* The loop of lines 189-190: perm_idx after `times` lookups in self.perm
\* (range(times) is empty for times <= 0).
RECURSIVE ApplyPerm(_, _, _)
ApplyPerm(perm, perm_idx, times) ==
  IF times <= 0 THEN perm_idx
  ELSE ApplyPerm(perm, perm[perm_idx + 1], times - 1)

\* The number of lookups __getitem__ makes: idx // len(self.inp_ds).
\* A faulty variant: one lookup too many.
PermTimesOneMore(idx, n) == PyFloorDiv(idx, n) + 1

PermTimes(idx, n) == PyFloorDiv(idx, n)

\* np.where(np.isfinite(perm_item.input), item.tgt, np.full_like(item.tgt, np.nan))
MaskedInput(item, perm_item) ==
  [c \in DOMAIN item.tgt |->
     IF IsFinite(perm_item.input[c]) THEN item.tgt[c] ELSE NaN]

\* AugmentedDataset.__getitem__; idx % 0 raises ZeroDivisionError.
AugmentedDataset_getitem(self, idx) ==
  LET n == Len(self.inp_ds)
      tgt_idx == PyMod(idx, n)
      perm_idx == ApplyPerm(self.perm, tgt_idx, PermTimes(idx, n))
      item == self.inp_ds[tgt_idx + 1]
      perm_item == self.inp_ds[perm_idx + 1]
  IN  IF n = 0 THEN Raise("ZeroDivisionError")
      ELSE [input |-> MaskedInput(item, perm_item), tgt |-> item.tgt]

\* ------------------------------------------ an augmented dataset, read from

\* The items of the base dataset: (input, tgt) pairs of two cells, the
\* input an observation with gaps, the target complete.
BaseItems ==
  [input : {<<Num(1), NaN>>, <<Num(2), Num(2)>>, <<NaN, Num(1)>>},
   tgt : {<<Num(1), Num(2)>>, <<Num(2), Num(1)>>}]

\* np.random.permutation(n): any permutation of 0 .. n-1.
PermutationsOf(n) ==
  {p \in [1..n -> 0..(n - 1)] : \A i, j \in 1..n : p[i] = p[j] => i = j}

InitAug ==
  /\ ds = NoObject
  /\ datasets = <<>>
  /\ \E n \in 0..MaxBase, aug_factor \in 0..MaxAug :
       \E inp_ds \in [1..n -> BaseItems], perm \in PermutationsOf(n) :
         aug = [inp_ds |-> inp_ds, aug_factor |-> aug_factor, perm |-> perm]
  /\ threads = <<>>
  /\ out = NoCall

\* aug[idx]
AugGetItem ==
  /\ \E idx \in (-2)..(AugmentedDataset_len(aug) + 1) :
       out' = [op |-> "aug_getitem", idx |-> idx,
               result |-> AugmentedDataset_getitem(aug, idx)]
  /\ UNCHANGED <<ds, datasets, aug, threads>>

NextAug == AugGetItem

SpecAug == InitAug /\ [][NextAug]_vars

\* ------------------------------------------------ one view, two threads

Threads == {"t1", "t2"}

Idle == [pc |-> "idle"]

\* A view over one row, with one window per cell.
InitThreads ==
  /\ \E lon \in 1..MaxExtent : ds = Member(lon, 1, 1)
  /\ datasets = <<>>
  /\ aug = NoObject
  /\ threads = [t \in Threads |-> Idle]
  /\ out = NoCall

\* Thread t calls ds[index]: lines 102-108 slice the source, reading only
\* fields that are never written after construction.
GetItemEnter(t) ==
  /\ threads[t].pc = "idle"
  /\ \E index \in 0..(XrDataset_len(ds) - 1) :
       threads' = [threads EXCEPT ![t] = [pc |-> "getitem", op |-> "getitem", index |-> index]]
  /\ UNCHANGED <<ds, datasets, aug, out>>

\* Line 110 reads self.return_coords; the call returns what the flag says.
GetItemReturn(t) ==
  /\ threads[t].pc = "getitem"
  /\ threads' = [threads EXCEPT ![t] =
                   [pc |-> "done", op |-> "getitem", index |-> threads[t].index,
                    result |-> getitem(ds, threads[t].index)]]
  /\ UNCHANGED <<ds, datasets, aug, out>>

\* Thread t calls ds.get_coords(), directly or from reconstruct_from_items
\* (line 136): line 92 raises the flag.
GetCoordsEnter(t) ==
  /\ threads[t].pc = "idle"
  /\ ds' = [ds EXCEPT !.return_coords = TRUE]
  /\ threads' = [threads EXCEPT ![t] = [pc |-> "coords_loop", op |-> "get_coords", coords |-> <<>>]]
  /\ UNCHANGED <<datasets, aug, out>>

\* One turn of the loop of lines 95-96: self[i] runs to its return, reading
\* the flag at line 110, and its result is appended.
GetCoordsTurn(t) ==
  /\ threads[t].pc = "coords_loop"
  /\ Len(threads[t].coords) < XrDataset_len(ds)
  /\ threads' = [threads EXCEPT ![t].coords =
                   Append(@, getitem(ds, Len(threads[t].coords)))]
  /\ UNCHANGED <<ds, datasets, aug, out>>

\* The finally clause of lines 97-99 lowers the flag and returns the list.
GetCoordsReturn(t) ==
  /\ threads[t].pc = "coords_loop"
  /\ Len(threads[t].coords) = XrDataset_len(ds)
  /\ ds' = [ds EXCEPT !.return_coords = FALSE]
  /\ threads' = [threads EXCEPT ![t] =
                   [pc |-> "done", op |-> "get_coords", result |-> threads[t].coords]]
  /\ UNCHANGED <<datasets, aug, out>>

NextThreads ==
  \E t \in Threads :
    \/ GetItemEnter(t)
    \/ GetItemReturn(t)
    \/ GetCoordsEnter(t)
    \/ GetCoordsTurn(t)
    \/ GetCoordsReturn(t)

SpecThreads == InitThreads /\ [][NextThreads]_vars

\* ---------------------------------------------------- claims about one view

\* da_dims[dim] of the constructor: the extent of axis dim.
Extent(self, d) == self.da.shape[AxisOf(self.da, d)]

\* Axis d is windowed as the spec's data model allows (positive patch size
\* and stride), the patch fits and the scan is complete.
FullScanAxis(self, d) ==
  /\ self.patch_dims[d] > 0
  /\ StrideGet(self.strides, d) > 0
  /\ self.patch_dims[d] <= Extent(self, d)
  /\ (Extent(self, d) - self.patch_dims[d]) % StrideGet(self.strides, d) = 0

\* The offsets of window i, read back from the slices __getitem__ takes.
WindowOffsets(self, i) ==
  [k \in 1..Len(PatchDimNames) |->
     Slices(self, i)[PatchDimNames[k]].start
       \div StrideGet(self.strides, PatchDimNames[k])]

\* C2: on a view whose axes are all fully scanned, the window count of an
\* axis is (extent - patch_size) // stride + 1 and len() is their product;
\* every combination of per-axis offsets is the slice of exactly one index
\* of 0 .. len()-1; index i is the row-major rank of its offsets (the axis
\* declared last varies fastest); and every slice is
\* [stride*offset, stride*offset + patch_size), inside [0, extent).
C2_GridBijection ==
  (ds # NoObject /\ \A d \in PatchKeys : FullScanAxis(ds, d)) =>
    LET count == [k \in 1..Len(PatchDimNames) |->
                    LET d == PatchDimNames[k]
                    IN  (Extent(ds, d) - ds.patch_dims[d])
                          \div StrideGet(ds.strides, d) + 1]
        total == SeqProd(count)
    IN  /\ \A k \in 1..Len(PatchDimNames) : ds.ds_size[PatchDimNames[k]] = count[k]
        /\ XrDataset_len(ds) = total
        /\ \A off \in Box(count) :
             Cardinality({i \in 0..(total - 1) : WindowOffsets(ds, i) = off}) = 1
        /\ \A i \in 0..(total - 1) :
             /\ RavelIndex(WindowOffsets(ds, i), count) = i
             /\ \A d \in PatchKeys :
                  LET sl == Slices(ds, i)[d]
                  IN  /\ sl.start % StrideGet(ds.strides, d) = 0
                      /\ sl.stop = sl.start + ds.patch_dims[d]
                      /\ 0 <= sl.start
                      /\ sl.stop <= Extent(ds, d)
        /\ (out.op = "getitem" /\ out.index \in 0..(total - 1)) =>
             /\ ~IsError(out.result)
             /\ \A k \in 1..Len(ds.da.dims) :
                  out.result.shape[k] = ds.patch_dims[ds.da.dims[k]]

\* Index 1 of a fully scanned view with two windows on each axis was read:
\* it is the second window along lon, the axis declared last.
C2_Witness ==
  /\ ds # NoObject
  /\ \A d \in PatchKeys : FullScanAxis(ds, d) /\ ds.ds_size[d] = 2
  /\ ds.da.dims = <<"lon", "lat">>
  /\ out.op = "getitem"
  /\ out.index = 1
  /\ WindowOffsets(ds, 1) = <<0, 1>>

\* C3: __getitem__ raises for every index outside [0, len()), negative
\* indices and every index of an empty view included: the call ends in the
\* out-of-bounds error of np.unravel_index (a ValueError) and returns neither
\* a patch nor a coordinate record.
C3_OutOfRangeRaises ==
  (out.op = "getitem" /\ (out.index < 0 \/ out.index >= XrDataset_len(ds)))
    => out.result = Raise("ValueError")

\* Index -1 of a view that has windows was asked for and raised.
C3_Witness ==
  /\ out.op = "getitem"
  /\ out.index = -1
  /\ XrDataset_len(ds) > 1
  /\ IsError(out.result)

\* C9: no view is ever constructed with a non-positive patch size or a
\* non-positive stride.
C9_NonPositiveRejected ==
  ds # NoObject =>
    \A d \in PatchKeys : ds.patch_dims[d] > 0 /\ StrideGet(ds.strides, d) > 0

\* ----------------------------------------------- claims about reconstruction

\* The offsets of window i by the definition of row-major order: the
\* offset tuple whose rank is i.
OffsetsOf(self, i) ==
  CHOOSE off \in Box(DsShape(self)) : RavelIndex(off, DsShape(self)) = i

\* The windows among the first n, with the patch cell of each, that cover
\* cell c of the full-size array.
Cover(self, c, n) ==
  {x \in (1..n) \X Box(PatchShape(self)) :
     \A k \in 1..Len(PatchDimNames) :
       StrideGet(self.strides, PatchDimNames[k]) * OffsetsOf(self, x[1] - 1)[k] + x[2][k]
         = c[k]}

RECURSIVE SumOver(_, _)
SumOver(S, f) ==
  IF S = {} THEN Num(0)
  ELSE LET x == CHOOSE x \in S : TRUE
       IN  FAdd(f[x], SumOver(S \ {x}, f))

\* The cell of the source that lies at cell c of the reconstructed array
\* (lat = c[1], lon = c[2]).
SourceAt(self, c) ==
  self.da.data[[k \in 1..Len(self.da.dims) |->
                  c[CHOOSE j \in 1..Len(PatchDimNames) : PatchDimNames[j] = self.da.dims[k]]]]

\* The windows tile the axes: stride = patch size <= extent on every axis.
NonOverlapping(self) ==
  \A d \in PatchKeys :
    /\ StrideGet(self.strides, d) = self.patch_dims[d]
    /\ self.patch_dims[d] <= Extent(self, d)

\* The cells some window covers, for a view whose windows tile the axes.
WindowedRegion(self) ==
  {c \in Box([k \in 1..Len(PatchDimNames) |-> Extent(self, PatchDimNames[k])]) :
     \A k \in 1..Len(PatchDimNames) :
       c[k] < self.ds_size[PatchDimNames[k]] * self.patch_dims[PatchDimNames[k]]}

RoundTripCall ==
  /\ out.op = "reconstruct_from_items"
  /\ NonOverlapping(ds)
  /\ out.items = GetItems(ds)
  /\ out.weight = None

\* C1 as stated, on the sources most favourable to it (the windowed axes
\* stored last and in declaration order, as the class docstring asks):
\* reconstructing get(0) .. get(len()-1) of a tiled source with the default
\* weight returns the source at every cell of the windowed region, none of
\* them not-a-number.
C1_RoundTripExact ==
  (RoundTripCall /\ EndsWith(ds.da.dims, PatchDimNames)) =>
    /\ ~IsError(out.result)
    /\ \A c \in WindowedRegion(ds) :
         out.result.val[c] = SourceAt(ds, c) /\ ~IsNaN(out.result.val[c])

\* C1 as amended: when the source's trailing axes are the windowed axes in
\* declaration order, the result holds at every cell of the windowed region
\* the source's value rounded to float32 (not-a-number where the source is).
C1_RoundTripFloat32 ==
  (RoundTripCall /\ EndsWith(ds.da.dims, PatchDimNames)) =>
    /\ ~IsError(out.result)
    /\ \A c \in WindowedRegion(ds) :
         out.result.val[c] = Float32(SourceAt(ds, c))

\* A source tiled by two windows along lat and three along lon was
\* reconstructed from its own patches, and one of its cells came back rounded.
C1_Witness ==
  /\ RoundTripCall
  /\ EndsWith(ds.da.dims, PatchDimNames)
  /\ ds.ds_size["lat"] = 2
  /\ ds.ds_size["lon"] = 3
  /\ ~IsError(out.result)
  /\ \E c \in WindowedRegion(ds) : out.result.val[c] # SourceAt(ds, c)

\* C6 (its half about one view): reconstruct_from_items raises whenever the
\* number of items differs from len().
C6_CountMismatchRaises ==
  (out.op = "reconstruct_from_items" /\ Len(out.items) # XrDataset_len(ds))
    => IsError(out.result)

\* C10: every cell of the result is the sum of item * weight over the
\* windows covering it divided by the sum of their weights, 0/0 (not-a-number)
\* where no window covers it; constant items under the default weight give
\* that constant at every covered cell; and a call with at least one item on
\* a view with at least one window, whose source has the windowed axes last
\* and in order, does not raise.
C10_WeightedAverage ==
  out.op = "reconstruct_from_items" =>
    LET w == IF out.weight = None THEN Ones(ds) ELSE out.weight
        n == Min(Len(out.items), XrDataset_len(ds))
    IN  /\ (n > 0 /\ EndsWith(ds.da.dims, PatchDimNames)) => ~IsError(out.result)
        /\ ~IsError(out.result) =>
             \A c \in Box(out.result.shape) :
               LET cover == Cover(ds, c, n)
                   wv == [x \in cover |-> FMul(out.items[x[1]].val[x[2]], w.val[x[2]])]
                   ww == [x \in cover |-> w.val[x[2]]]
               IN  /\ out.result.val[c] = FDiv(SumOver(cover, wv), SumOver(cover, ww))
                   /\ cover = {} => IsNaN(out.result.val[c])
                   /\ (/\ cover # {}
                       /\ out.weight = None
                       /\ \A i \in 1..n : out.items[i] = ConstItem(ds, 3))
                        => out.result.val[c] = Num(3)

\* Overlapping windows that leave a cell uncovered were stitched under a
\* weight that is not uniform: one cell is covered twice and finite, another
\* is covered by no window and not-a-number.
C10_Witness ==
  /\ out.op = "reconstruct_from_items"
  /\ out.weight # None
  /\ Len(out.items) = XrDataset_len(ds)
  /\ ~IsError(out.result)
  /\ \E c \in Box(out.result.shape) :
       /\ Cardinality(Cover(ds, c, Len(out.items))) >= 2
       /\ IsFinite(out.result.val[c])
       /\ out.result.val[c] # Num(0)
  /\ \E c \in Box(out.result.shape) :
       /\ Cover(ds, c, Len(out.items)) = {}
       /\ IsNaN(out.result.val[c])

\* ------------------------------------------ claims about XrConcatDataset

\* The number of stream items that belong to the members before member j.
StartOf(dss, j) == SeqSum([i \in 1..(j - 1) |-> XrDataset_len(dss[i])])

\* What member j returns, called directly with its own run of the stream.
DirectResult(dss, stream, weight, j) ==
  reconstruct_from_items(
    dss[j],
    [k \in 1..XrDataset_len(dss[j]) |-> stream[StartOf(dss, j) + k]],
    weight)

\* C7: given a stream of exactly sum(len(view)) items, reconstruct gives
\* what calling reconstruct_from_items on each member with its own
\* contiguous run of the stream gives: when every such call returns, one
\* array per member, in declaration order, the array of member j being the
\* result of its call; when one raises, the error of the first member whose
\* call raises.
C7_ConcatMatchesMembers ==
  (out.op = "concat_reconstruct" /\ Len(Chain(out.batches)) = TotalLen(datasets)) =>
    LET stream == Chain(out.batches)
        failing == {j \in 1..Len(datasets) :
                      IsError(DirectResult(datasets, stream, out.weight, j))}
    IN  IF failing = {}
          THEN /\ ~IsError(out.result)
               /\ Len(out.result.rec_das) = Len(datasets)
               /\ \A j \in 1..Len(datasets) :
                    out.result.rec_das[j] = DirectResult(datasets, stream, out.weight, j)
          ELSE out.result =
                 DirectResult(datasets, stream, out.weight,
                              CHOOSE j \in failing : \A i \in failing : j <= i)

\* Two views of lengths 1 and 2 were reconstructed from a stream of exactly
\* three items that came in two batches; two arrays came back.
C7_Witness ==
  /\ out.op = "concat_reconstruct"
  /\ Len(datasets) = 2
  /\ XrDataset_len(datasets[1]) = 1
  /\ XrDataset_len(datasets[2]) = 2
  /\ Len(out.batches) = 2
  /\ Len(Chain(out.batches)) = 3
  /\ ~IsError(out.result)
  /\ Len(out.result.rec_das) = 2

\* ----------------------------------------- claims about AugmentedDataset

\* C4: __getitem__ raises for every index outside [0, len(base) * (k + 1)).
C4_OutOfRangeRaises ==
  (out.op = "aug_getitem" /\ (out.idx < 0 \/ out.idx >= AugmentedDataset_len(aug)))
    => IsError(out.result)

\* C5 as stated: for 0 <= idx < n the item returned is the base item, input
\* and target.
C5_FirstPassIsBaseItem ==
  (out.op = "aug_getitem" /\ out.idx >= 0 /\ out.idx < Len(aug.inp_ds)) =>
    /\ out.result.input = aug.inp_ds[out.idx + 1].input
    /\ out.result.tgt = aug.inp_ds[out.idx + 1].tgt

\* C5 as amended: for 0 <= idx < n the permutation is not applied; the
\* target returned is the base item's target, and the input returned is the
\* base item's target at the cells where the base item's own input is finite
\* and not-a-number at the others.
C5_FirstPassMasksTarget ==
  (out.op = "aug_getitem" /\ out.idx >= 0 /\ out.idx < Len(aug.inp_ds)) =>
    LET base == aug.inp_ds[out.idx + 1]
    IN  /\ out.result.tgt = base.tgt
        /\ \A c \in DOMAIN base.tgt :
             out.result.input[c] = IF IsFinite(base.input[c]) THEN base.tgt[c] ELSE NaN

\* Index 0 was read from a dataset of two items that the permutation
\* swaps and whose inputs have their gaps at different cells.
C5_Witness ==
  /\ out.op = "aug_getitem"
  /\ out.idx = 0
  /\ Len(aug.inp_ds) = 2
  /\ aug.perm = <<1, 0>>
  /\ aug.aug_factor > 0
  /\ \E c \in DOMAIN aug.inp_ds[1].tgt :
       IsFinite(aug.inp_ds[1].input[c]) # IsFinite(aug.inp_ds[2].input[c])
  /\ ~IsError(out.result)

\* ------------------------------------------------ claims about threads

\* C8: a get(i) that has returned, whatever ran between its steps, returned
\* the data patch it returns when run alone, and a get_coords that has
\* returned holds coordinate records only.
C8_ConcurrentCallsAgree ==
  \A t \in DOMAIN threads :
    threads[t].pc = "done" =>
      IF threads[t].op = "getitem"
        THEN threads[t].result = getitem_flag(ds, threads[t].index, FALSE)
        ELSE \A i \in 1..Len(threads[t].result) : threads[t].result[i].kind = "coords"

====
